---- MODULE Spec2Model ----
(***************************************************************************)
(* A model of the CA-GPT agent (src/ca_agent_tools.py) and of the          *)
(* knowledge-base chunker (src/build_kb_index.py).                         *)
(*                                                                         *)
(* Python strings that the code inspects (section identifiers, mapping     *)
(* keys, tool-call argument strings, document texts) are sequences of      *)
(* one-character strings.  Python values whose type matters are tagged     *)
(* records [t |-> type, v |-> value].                                      *)
(***************************************************************************)
EXTENDS Integers, Sequences, FiniteSets, TLC

VARIABLES
    LAWS_DB,         \* ca_agent_tools.py:45-51  ordered mapping key -> text
    faiss_index,     \* ca_agent_tools.py:33-42  TRUE iff an index was loaded
    SESSION_MEMORY,  \* ca_agent_tools.py:54     session id -> list of turns
    pc,              \* position of each request inside call_agent
    session_id,      \* call_agent argument
    question,        \* call_agent argument
    include_kb,      \* call_agent argument
    messages,        \* call_agent local: the message list
    kb_sources,      \* call_agent local
    choice,          \* call_agent local: the first response's message
    followup,        \* call_agent local: the second response's text
    func_name,       \* call_agent local (None until a tool call is handled)
    tool_result,     \* call_agent local (None until a tool call is handled)
    final,           \* call_agent local
    ret,             \* value returned by call_agent, or the exception raised
    sent,            \* chat-completion requests issued by this call so far
    lookups,         \* laws_lookup invocations made by this call so far
    entry,           \* history variable: SESSION_MEMORY when this call was entered
    returned,        \* history variable: calls that have returned, per session
    lk_section,      \* laws_lookup applied on its own: argument
    lk_result,       \* laws_lookup applied on its own: returned value
    ck_text,         \* chunk_text applied on its own: text argument
    ck_size,         \* chunk_text applied on its own: size argument
    ck_chunks        \* chunk_text applied on its own: returned list

agent_vars == <<SESSION_MEMORY, pc, session_id, question, include_kb, messages,
                kb_sources, choice, func_name, tool_result, followup, final, ret,
                sent, lookups, entry, returned>>
lookup_vars == <<lk_section, lk_result>>
chunk_vars == <<ck_text, ck_size, ck_chunks>>
vars == <<LAWS_DB, faiss_index, agent_vars, lookup_vars, chunk_vars>>

---------------------------------------------------------------------------
(* Bounds of the model                                                     *)

MaxLen == 2        \* longest mapping key / queried section string
MaxKeys == 2       \* most keys in an enumerated laws mapping
MaxTextLen == 4    \* longest document text given to chunk_text
MaxSize == 3       \* largest chunk size given to chunk_text
MaxTurns == 4      \* stored turns allowed while requests run concurrently
MaxTurnsSeq == 10  \* stored turns allowed when requests run one at a time
MaxTurnsTool == 4  \* stored turns allowed when every tool-call shape is explored

---------------------------------------------------------------------------
(* Python values                                                           *)

None == [t |-> "None", v |-> <<>>]
Str(s) == [t |-> "str", v |-> s]
PyInt(n) == [t |-> "int", v |-> n]
List(l) == [t |-> "list", v |-> l]
Dict(d) == [t |-> "dict", v |-> d]

\* The characters document texts, keys and section strings are drawn from.
Alphabet == {"a", "A", " "}

RECURSIVE StringsUpTo(_)
StringsUpTo(n) ==
    IF n = 0 THEN {<<>>}
    ELSE LET shorter == StringsUpTo(n - 1)
         IN  shorter \cup {Append(s, c) : s \in {x \in shorter : Len(x) = n - 1}, c \in Alphabet}

\* str.lower(), character by character; A and B are the upper-case letters
\* that occur in the model's strings.
LowerChar(c) == CASE c = "A" -> "a" [] c = "B" -> "b" [] OTHER -> c
lower(s) == [i \in 1..Len(s) |-> LowerChar(s[i])]

IsSpace(c) == c = " "

\* str.strip(): drop leading and trailing whitespace.
RECURSIVE lstrip(_)
lstrip(s) == IF s # <<>> /\ IsSpace(Head(s)) THEN lstrip(Tail(s)) ELSE s
RECURSIVE rstrip(_)
rstrip(s) == IF s # <<>> /\ IsSpace(s[Len(s)]) THEN rstrip(SubSeq(s, 1, Len(s) - 1)) ELSE s
strip(s) == rstrip(lstrip(s))

\* Python's `a in b` for strings.
Contains(a, b) ==
    \E i \in 0..(Len(b) - Len(a)) : SubSeq(b, i + 1, i + Len(a)) = a

---------------------------------------------------------------------------
(* laws_lookup  (ca_agent_tools.py:74-85)                                  *)

NOT_FOUND_TEXT == <<"Section not found in local DB.">>

\* LAWS_DB is a sequence of [key, text] entries in mapping iteration order.
Entry(key) == [key |-> key, text |-> <<"text of ">> \o key]
Keys(db) == {db[i].key : i \in 1..Len(db)}

\* `for key in LAWS_DB: if ...: return ...` -- the first of the positions
\* whose key passes the test, or 0 when there is none.
FirstIndex(hits) ==
    IF hits = {} THEN 0 ELSE CHOOSE i \in hits : \A j \in hits : i <= j

ExactPass(db, s) ==
    FirstIndex({i \in 1..Len(db) : lower(db[i].key) = lower(s)})
SubstringPass(db, s) ==
    FirstIndex({i \in 1..Len(db) : Contains(lower(s), lower(db[i].key))})

\* Mutant of laws_lookup_in: the not-found result echoes the stripped string.
laws_lookup_echo_stripped(db, section) ==
    LET s == strip(section)
        e == ExactPass(db, s)
        f == SubstringPass(db, s)
    IN  IF e # 0 THEN [found |-> TRUE, section |-> db[e].key, text |-> db[e].text]
        ELSE IF f # 0 THEN [found |-> TRUE, section |-> db[f].key, text |-> db[f].text]
        ELSE [found |-> FALSE, section |-> s, text |-> NOT_FOUND_TEXT]

laws_lookup_in(db, section) ==
    LET s == strip(section)
        e == ExactPass(db, s)
        f == SubstringPass(db, s)
    IN  IF e # 0 THEN [found |-> TRUE, section |-> db[e].key, text |-> db[e].text]
        ELSE IF f # 0 THEN [found |-> TRUE, section |-> db[f].key, text |-> db[f].text]
        ELSE [found |-> FALSE, section |-> section, text |-> NOT_FOUND_TEXT]

laws_lookup(section) == laws_lookup_in(LAWS_DB, section)

---------------------------------------------------------------------------
(* chunk_text  (build_kb_index.py:23-24)                                   *)

\* Mutant of Slice: text[i:j+1], a window one character too wide.
SliceTooWide(text, i, j) ==
    SubSeq(text, i + 1, IF j + 1 < Len(text) THEN j + 1 ELSE Len(text))

\* text[i:j] for 0 <= i <= j: Python clips j at len(text).
Slice(text, i, j) ==
    SubSeq(text, i + 1, IF j < Len(text) THEN j ELSE Len(text))

\* [text[i:i+size] for i in range(start, len(text), size)]
RECURSIVE ChunksFrom(_, _, _)
ChunksFrom(text, size, i) ==
    IF i >= Len(text) THEN <<>>
    ELSE <<Slice(text, i, i + size)>> \o ChunksFrom(text, size, i + size)

chunk_text(text, size) == ChunksFrom(text, size, 0)

---------------------------------------------------------------------------
(* json.loads / json.dumps as call_agent uses them                         *)

QUOTE == "\""
SECTION == <<"s", "e", "c", "t", "i", "o", "n">>

\* The JSON text of a string without characters that need escaping.
JsonString(s) == <<QUOTE>> \o s \o <<QUOTE>>
\* The JSON text {"section":<value text>}.
JsonObject(valueText) ==
    <<"{">> \o JsonString(SECTION) \o <<":">> \o valueText \o <<"}">>

IsJsonString(txt) ==
    /\ Len(txt) >= 2
    /\ txt[1] = QUOTE
    /\ txt[Len(txt)] = QUOTE
    /\ \A i \in 2..(Len(txt) - 1) : txt[i] # QUOTE

Digits == {"0", "1", "2", "3", "4", "5", "6", "7", "8", "9"}
DigitValue(c) == CHOOSE n \in 0..9 : ToString(n) = c

\* json.loads on a scalar or empty-array text: <<TRUE, value>> or <<FALSE, None>>
\* (the text is not JSON of these shapes).
JsonScalar(txt) ==
    IF txt = <<"n", "u", "l", "l">> THEN <<TRUE, None>>
    ELSE IF Len(txt) = 1 /\ txt[1] \in Digits THEN <<TRUE, PyInt(DigitValue(txt[1]))>>
    ELSE IF txt = <<"[", "]">> THEN <<TRUE, List(<<>>)>>
    ELSE IF IsJsonString(txt) THEN <<TRUE, Str(SubSeq(txt, 2, Len(txt) - 1))>>
    ELSE <<FALSE, None>>

\* json.loads(raw): <<TRUE, value>>, or <<FALSE, None>> when it raises.  The
\* texts recognised are scalars, [], {} and {"section":<scalar>}; every other
\* text of the model is not valid JSON.
json_loads(raw) ==
    LET head == JsonObject(<<>>)
        n == Len(head) - 1          \* length of {"section":
    IN  IF raw = <<"{", "}">> THEN <<TRUE, Dict(<<>>)>>
        ELSE IF /\ Len(raw) > Len(head)
                /\ SubSeq(raw, 1, n) = SubSeq(head, 1, n)
                /\ raw[Len(raw)] = "}"
                /\ JsonScalar(SubSeq(raw, n + 1, Len(raw) - 1))[1]
        THEN <<TRUE, Dict(<<[k |-> SECTION,
                             val |-> JsonScalar(SubSeq(raw, n + 1, Len(raw) - 1))[2]]>>)>>
        ELSE JsonScalar(raw)

\* json.dumps(obj): the JSON text of obj, kept as the value it encodes.
json_dumps(obj) == [t |-> "json", v |-> obj]

\* Python truthiness of an optional string, and `x or default`.
Truthy(x) == x # None /\ x # Str(<<>>)
Or(x, default) == IF Truthy(x) THEN x ELSE default

\* d.get(key, default) on a dict value.
DictGet(d, key, default) ==
    LET hits == {i \in 1..Len(d.v) : d.v[i].k = key}
    IN  IF hits = {} THEN default ELSE d.v[CHOOSE i \in hits : TRUE].val

---------------------------------------------------------------------------
(* Session memory and prompt assembly  (ca_agent_tools.py:24, 54, 88-114)  *)

MEMORY_WINDOW == 6
SYSTEM_PROMPT == Str(<<"You are CA-GPT, a helpful Chartered Accountant assistant">>)

Turn(role, content) == [role |-> role, content |-> content]

\* SESSION_MEMORY.get(session_id, [])
MemGet(mem, sid) == IF sid \in DOMAIN mem THEN mem[sid] ELSE <<>>

\* Mutant of MemAppend: SESSION_MEMORY.get(session_id, []).append(turn), which
\* appends to a list the mapping does not hold when the session is new.
MemAppendGet(mem, sid, turn) ==
    IF sid \in DOMAIN mem THEN [mem EXCEPT ![sid] = Append(@, turn)] ELSE mem

\* SESSION_MEMORY.setdefault(session_id, []).append(turn)
MemAppend(mem, sid, turn) ==
    [x \in DOMAIN mem \cup {sid} |->
        IF x = sid THEN Append(MemGet(mem, sid), turn) ELSE mem[x]]

\* Mutant of tail: mem[:MEMORY_WINDOW], the oldest turns instead of the newest.
head(mem) ==
    IF Len(mem) <= MEMORY_WINDOW THEN mem ELSE SubSeq(mem, 1, MEMORY_WINDOW)

\* mem[-MEMORY_WINDOW:]
tail(mem) ==
    IF Len(mem) <= MEMORY_WINDOW THEN mem
    ELSE SubSeq(mem, Len(mem) - MEMORY_WINDOW + 1, Len(mem))

\* ca_agent_tools.py:98-103: the system instruction, then the memory window.
BaseMessages(sid) ==
    LET mem == MemGet(SESSION_MEMORY, sid)
    IN  <<Turn("system", SYSTEM_PROMPT)>> \o (IF mem # <<>> THEN tail(mem) ELSE <<>>)

\* ca_agent_tools.py:110: one system-role context block per hit.
KBBlock(h) == Turn("system", Str(<<"KB_FILE: ", h.file, "\n", h.text>>))
KBBlocks(hits) == [i \in 1..Len(hits) |-> KBBlock(hits[i])]
KBFiles(hits) == [i \in 1..Len(hits) |-> hits[i].file]

\* A chat-completion request: the messages, and whether tools are offered.
ChatRequest(msgs, tools) == [messages |-> msgs, tools |-> tools]
FirstRequest(msgs) == ChatRequest(msgs, TRUE)        \* ca_agent_tools.py:141-148
\* Mutant of FollowupRequest: the second call offers the tools again.
FollowupRequestWithTools(msgs) == ChatRequest(msgs, TRUE)
FollowupRequest(msgs) == ChatRequest(msgs, FALSE)    \* ca_agent_tools.py:177-182

Returned(v) == [t |-> "return", v |-> v]
Raised(e) == [t |-> "raise", v |-> e]

TotalTurns ==
    LET RECURSIVE Sum(_)
        Sum(S) == IF S = {} THEN 0
                  ELSE LET x == CHOOSE y \in S : TRUE
                       IN  Len(SESSION_MEMORY[x]) + Sum(S \ {x})
    IN  Sum(DOMAIN SESSION_MEMORY)
InFlight == Cardinality({r \in DOMAIN pc : pc[r] # "idle"})

---------------------------------------------------------------------------
(* call_agent  (ca_agent_tools.py:117-193), one action per step between    *)
(* blocking calls and accesses to SESSION_MEMORY                           *)

\* A tool call requested by the model.
ToolCall(id, name, arguments) == [id |-> id, name |-> name, arguments |-> arguments]
\* The message of a chat completion: its text and its requested tool calls
\* (<<>> when tool_calls is None or empty).
Choice(content, tool_calls) == [content |-> content, tool_calls |-> tool_calls]

\* ca_agent_tools.py:155  raw_args = tool_call.function.arguments or "{}"
RawArgs(tc) == Or(tc.arguments, Str(<<"{", "}">>)).v

\* ca_agent_tools.py:156-159  json.loads(raw_args), or {"section": raw_args}
ParseArgs(raw) ==
    IF json_loads(raw)[1] THEN json_loads(raw)[2]
    ELSE Dict(<<[k |-> SECTION, val |-> Str(raw)]>>)

\* Mutant of ExecuteTool: no check of the tool's name, every requested tool
\* call is dispatched to laws_lookup.
ExecuteAnyTool(name, args) ==
    IF args.t # "dict"
    THEN [raised |-> TRUE, invoked |-> 0, result |-> None]
    ELSE LET section == DictGet(args, SECTION, Str(<<>>))
         IN  IF section.t # "str"
             THEN [raised |-> TRUE, invoked |-> 1, result |-> None]
             ELSE [raised |-> FALSE, invoked |-> 1,
                   result |-> Dict(laws_lookup(section.v))]

\* ca_agent_tools.py:162-166  the tool's execution.  The outcome is
\* [raised, invoked, result]: args.get raises AttributeError unless args is a
\* dict, and section.strip() inside laws_lookup does unless section is a str.
ExecuteTool(name, args) ==
    IF name = <<"laws_lookup">>
    THEN IF args.t # "dict"
         THEN [raised |-> TRUE, invoked |-> 0, result |-> None]
         ELSE LET section == DictGet(args, SECTION, Str(<<>>))
              IN  IF section.t # "str"
                  THEN [raised |-> TRUE, invoked |-> 1, result |-> None]
                  ELSE [raised |-> FALSE, invoked |-> 1,
                        result |-> Dict(laws_lookup(section.v))]
    ELSE [raised |-> FALSE, invoked |-> 0,
          result |-> Dict([error |-> <<"Unknown tool ">> \o name])]

\* ca_agent_tools.py:169-174  the two messages appended after the tool ran.
ToolCallMessage(c, tc) ==
    [role |-> "assistant", content |-> Or(c.content, Str(<<>>)),
     tool_calls |-> <<[id |-> tc.id, type |-> "function",
                       function |-> [name |-> tc.name, arguments |-> RawArgs(tc)]]>>]
ToolResultMessage(tc, result) ==
    [role |-> "tool", tool_call_id |-> tc.id, content |-> json_dumps(result)]

\* ca_agent_tools.py:185, 191 and 186, 192
UserTurn(r) == Turn("user", Str(question[r]))
AssistantTurn(r) == Turn("assistant", final[r])

\* ca_agent_tools.py:187, 193
ReturnValue(r) ==
    Returned([answer |-> final[r], kb_sources |-> kb_sources[r],
              tool_used |-> func_name[r], tool_result |-> tool_result[r]])

unchanged_env == UNCHANGED <<LAWS_DB, faiss_index, lookup_vars, chunk_vars>>

\* call_agent is entered and build_base_messages reads the memory window
\* (lines 98-103; the read is one step: the slice of line 102 sees the list
\* as it is at that moment).  With retrieval on and an index loaded the
\* embedding call follows (line 62); otherwise the question is appended
\* (line 113) and the first chat call is issued (line 141).
Start(r, sid, q, kb) ==
    /\ pc[r] = "idle"
    /\ session_id' = [session_id EXCEPT ![r] = sid]
    /\ question' = [question EXCEPT ![r] = q]
    /\ include_kb' = [include_kb EXCEPT ![r] = kb]
    /\ entry' = [entry EXCEPT ![r] = SESSION_MEMORY]
    /\ IF kb /\ faiss_index
       THEN /\ messages' = [messages EXCEPT ![r] = BaseMessages(sid)]
            /\ pc' = [pc EXCEPT ![r] = "embed"]
            /\ sent' = sent
       ELSE /\ messages' = [messages EXCEPT ![r] =
                                Append(BaseMessages(sid), Turn("user", Str(q)))]
            /\ pc' = [pc EXCEPT ![r] = "chat1"]
            /\ sent' = [sent EXCEPT ![r] =
                            <<FirstRequest(Append(BaseMessages(sid), Turn("user", Str(q))))>>]
    /\ UNCHANGED <<SESSION_MEMORY, kb_sources, choice, func_name, tool_result,
                   followup, final, ret, lookups, returned>>
    /\ unchanged_env

\* semantic_search returns its hits (lines 62-71); lines 108-113 add one
\* context block per hit and the question, and line 141 issues the first call.
EmbedReturns(r, hits) ==
    /\ pc[r] = "embed"
    /\ LET msgs == messages[r] \o KBBlocks(hits) \o <<Turn("user", Str(question[r]))>>
       IN  /\ messages' = [messages EXCEPT ![r] = msgs]
           /\ sent' = [sent EXCEPT ![r] = <<FirstRequest(msgs)>>]
    /\ kb_sources' = [kb_sources EXCEPT ![r] = KBFiles(hits)]
    /\ pc' = [pc EXCEPT ![r] = "chat1"]
    /\ UNCHANGED <<SESSION_MEMORY, session_id, question, include_kb, choice, func_name,
                   tool_result, followup, final, ret, lookups, entry, returned>>
    /\ unchanged_env

\* Mutant of ProviderFails: the question is stored although the call failed.
ProviderFailsKeepingQuestion(r, at) ==
    /\ pc[r] = at
    /\ pc' = [pc EXCEPT ![r] = "raised"]
    /\ ret' = [ret EXCEPT ![r] = Raised("provider error")]
    /\ SESSION_MEMORY' = MemAppend(SESSION_MEMORY, session_id[r], UserTurn(r))
    /\ UNCHANGED <<session_id, question, include_kb, messages,
                   kb_sources, choice, func_name, tool_result, followup, final,
                   sent, lookups, entry, returned>>
    /\ unchanged_env

\* A provider call raises; nothing in call_agent catches it.
ProviderFails(r, at) ==
    /\ pc[r] = at
    /\ pc' = [pc EXCEPT ![r] = "raised"]
    /\ ret' = [ret EXCEPT ![r] = Raised("provider error")]
    /\ UNCHANGED <<SESSION_MEMORY, session_id, question, include_kb, messages,
                   kb_sources, choice, func_name, tool_result, followup, final,
                   sent, lookups, entry, returned>>
    /\ unchanged_env

EmbedFails(r) == ProviderFails(r, "embed")
Chat1Fails(r) == ProviderFails(r, "chat1")
Chat2Fails(r) == ProviderFails(r, "chat2")

\* The first chat call returns the message c (lines 149-182, 190).
Chat1Returns(r, c) ==
    /\ pc[r] = "chat1"
    /\ choice' = [choice EXCEPT ![r] = c]
    /\ IF c.tool_calls # <<>>
       THEN LET tc == c.tool_calls[1]
                out == ExecuteTool(tc.name, ParseArgs(RawArgs(tc)))
                msgs == messages[r] \o <<ToolCallMessage(c, tc),
                                         ToolResultMessage(tc, out.result)>>
            IN  /\ func_name' = [func_name EXCEPT ![r] = Str(tc.name)]
                /\ lookups' = [lookups EXCEPT ![r] = @ + out.invoked]
                /\ IF out.raised
                   THEN /\ pc' = [pc EXCEPT ![r] = "raised"]
                        /\ ret' = [ret EXCEPT ![r] = Raised("AttributeError")]
                        /\ UNCHANGED <<messages, tool_result, sent>>
                   ELSE /\ pc' = [pc EXCEPT ![r] = "chat2"]
                        /\ tool_result' = [tool_result EXCEPT ![r] = out.result]
                        /\ messages' = [messages EXCEPT ![r] = msgs]
                        /\ sent' = [sent EXCEPT ![r] = Append(@, FollowupRequest(msgs))]
                        /\ ret' = ret
                /\ final' = final
       ELSE /\ final' = [final EXCEPT ![r] = Or(c.content, Str(<<>>))]
            /\ pc' = [pc EXCEPT ![r] = "append_user"]
            /\ UNCHANGED <<messages, func_name, tool_result, ret, sent, lookups>>
    /\ UNCHANGED <<SESSION_MEMORY, session_id, question, include_kb, kb_sources,
                   followup, entry, returned>>
    /\ unchanged_env

\* The second chat call returns text `content` (line 183).
Chat2Returns(r, content) ==
    /\ pc[r] = "chat2"
    /\ followup' = [followup EXCEPT ![r] = content]
    /\ final' = [final EXCEPT ![r] = content]
    /\ pc' = [pc EXCEPT ![r] = "append_user"]
    /\ UNCHANGED <<SESSION_MEMORY, session_id, question, include_kb, messages,
                   kb_sources, choice, func_name, tool_result, ret, sent, lookups,
                   entry, returned>>
    /\ unchanged_env

\* Mutant of AppendUser: the two appends of a call are made under a
\* per-session lock, so no other call of the session is between its appends.
AppendUserLocked(r) ==
    /\ pc[r] = "append_user"
    /\ \A o \in DOMAIN pc \ {r} :
           ~(pc[o] = "append_assistant" /\ session_id[o] = session_id[r])
    /\ SESSION_MEMORY' = MemAppend(SESSION_MEMORY, session_id[r], UserTurn(r))
    /\ pc' = [pc EXCEPT ![r] = "append_assistant"]
    /\ UNCHANGED <<session_id, question, include_kb, messages, kb_sources, choice,
                   func_name, tool_result, followup, final, ret, sent, lookups,
                   entry, returned>>
    /\ unchanged_env

\* Lines 185 / 191.
AppendUser(r) ==
    /\ pc[r] = "append_user"
    /\ SESSION_MEMORY' = MemAppend(SESSION_MEMORY, session_id[r], UserTurn(r))
    /\ pc' = [pc EXCEPT ![r] = "append_assistant"]
    /\ UNCHANGED <<session_id, question, include_kb, messages, kb_sources, choice,
                   func_name, tool_result, followup, final, ret, sent, lookups,
                   entry, returned>>
    /\ unchanged_env

\* Lines 186-187 / 192-193.
AppendAssistant(r) ==
    /\ pc[r] = "append_assistant"
    /\ SESSION_MEMORY' = MemAppend(SESSION_MEMORY, session_id[r], AssistantTurn(r))
    /\ ret' = [ret EXCEPT ![r] = ReturnValue(r)]
    /\ pc' = [pc EXCEPT ![r] = "done"]
    /\ returned' = [returned EXCEPT ![session_id[r]] = @ + 1]
    /\ UNCHANGED <<session_id, question, include_kb, messages, kb_sources, choice,
                   func_name, tool_result, followup, final, sent, lookups, entry>>
    /\ unchanged_env

NoChoice == Choice(None, <<>>)

\* The caller (the /ask handler, line 220, or the CLI loop, line 232) has the
\* outcome; the call's frame is gone and the worker is free for another call.
Finish(r) ==
    /\ pc[r] \in {"done", "raised"}
    /\ pc' = [pc EXCEPT ![r] = "idle"]
    /\ session_id' = [session_id EXCEPT ![r] = ""]
    /\ question' = [question EXCEPT ![r] = <<>>]
    /\ include_kb' = [include_kb EXCEPT ![r] = FALSE]
    /\ messages' = [messages EXCEPT ![r] = <<>>]
    /\ kb_sources' = [kb_sources EXCEPT ![r] = <<>>]
    /\ choice' = [choice EXCEPT ![r] = NoChoice]
    /\ func_name' = [func_name EXCEPT ![r] = None]
    /\ tool_result' = [tool_result EXCEPT ![r] = None]
    /\ followup' = [followup EXCEPT ![r] = None]
    /\ final' = [final EXCEPT ![r] = None]
    /\ ret' = [ret EXCEPT ![r] = None]
    /\ sent' = [sent EXCEPT ![r] = <<>>]
    /\ lookups' = [lookups EXCEPT ![r] = 0]
    /\ entry' = [entry EXCEPT ![r] = <<>>]
    /\ UNCHANGED <<SESSION_MEMORY, returned>>
    /\ unchanged_env

---------------------------------------------------------------------------
(* Inputs                                                                  *)

Sessions == {"s1", "s2"}
Q1 == <<"q", "1">>
Q2 == <<"q", "2">>
Questions == {Q1, Q2}
A1 == <<"a", "1">>
A2 == <<"a", "2">>

\* kb_meta entries semantic_search can return.
H1 == [file |-> "gst.md", text |-> "chunk 1"]
H2 == [file |-> "tax.md", text |-> "chunk 2"]
HitLists == {<<>>, <<H1, H2>>}

LOOKUP == <<"laws_lookup">>
OTHER_TOOL == <<"web_search">>

\* Laws mappings the agent is started with: none (laws.json absent) and one
\* with two sections.
ExampleDB == <<Entry(<<"a", "A">>), Entry(<<"a">>)>>
AgentDBs == {<<>>, ExampleDB}

\* Every mapping of at most MaxKeys distinct keys of at most MaxLen characters.
RECURSIVE DBsUpTo(_)
DBsUpTo(n) ==
    IF n = 0 THEN {<<>>}
    ELSE LET smaller == DBsUpTo(n - 1)
             full == {d \in smaller : Len(d) = n - 1}
         IN  smaller \cup
             {Append(p[1], Entry(p[2])) :
                 p \in {x \in full \X StringsUpTo(MaxLen) : x[2] \notin Keys(x[1])}}

\* Argument strings of a requested tool call: absent, empty, not valid JSON,
\* and valid JSON of each shape.
InvalidJson == {<<"a">>, <<" ", "A">>, <<"{">>}
SectionValues == {JsonString(<<"a">>), JsonString(<<" ", "A", " ">>),
                  JsonString(<<"z">>), <<"5">>, <<"n", "u", "l", "l">>, <<"[", "]">>}
ValidJson == {<<"{", "}">>} \cup {JsonObject(v) : v \in SectionValues}
                 \cup {JsonString(<<"a">>), <<"[", "]">>, <<"5">>, <<"n", "u", "l", "l">>}
ArgStrings == {None, Str(<<>>)} \cup {Str(x) : x \in InvalidJson \cup ValidJson}

GoodCall == ToolCall("call_2", LOOKUP, Str(JsonObject(JsonString(<<"a">>))))

\* First responses: every text with no tool call, with one tool call of
\* every name and argument string, and with a second, parallel tool call.
Contents == {None, Str(<<>>), Str(A1)}
FirstResponses ==
    {Choice(c, <<>>) : c \in Contents}
    \cup {Choice(c, <<ToolCall("call_1", n, a)>>) :
             c \in {None, Str(A1)}, n \in {LOOKUP, OTHER_TOOL}, a \in ArgStrings}
    \cup {Choice(None, <<ToolCall("call_1", n, Str(JsonObject(JsonString(<<"z">>)))), GoodCall>>) :
             n \in {LOOKUP, OTHER_TOOL}}
SecondResponses == {None, Str(A2)}

\* A few first and second responses, for runs with long histories or with
\* two requests in flight.
SomeFirstResponses == {Choice(Str(A1), <<>>), Choice(None, <<GoodCall>>)}
SomeSecondResponses == {Str(A2)}

---------------------------------------------------------------------------
(* laws_lookup and chunk_text applied on their own                         *)

\* One application per behaviour: laws_lookup reads LAWS_DB and its argument
\* only, so an application does not depend on the ones before it.
Lookup(section) ==
    /\ lk_result = None
    /\ lk_section' = section
    /\ lk_result' = Dict(laws_lookup(section))
    /\ UNCHANGED <<LAWS_DB, faiss_index, agent_vars, chunk_vars>>

Chunk(text, size) ==
    /\ ck_chunks = None
    /\ ck_text' = text
    /\ ck_size' = size
    /\ ck_chunks' = List(chunk_text(text, size))
    /\ UNCHANGED <<LAWS_DB, faiss_index, agent_vars, lookup_vars>>

---------------------------------------------------------------------------
(* Specifications                                                          *)

InitAgent(Reqs) ==
    /\ SESSION_MEMORY = <<>>
    /\ pc = [r \in Reqs |-> "idle"]
    /\ session_id = [r \in Reqs |-> ""]
    /\ question = [r \in Reqs |-> <<>>]
    /\ include_kb = [r \in Reqs |-> FALSE]
    /\ messages = [r \in Reqs |-> <<>>]
    /\ kb_sources = [r \in Reqs |-> <<>>]
    /\ choice = [r \in Reqs |-> NoChoice]
    /\ followup = [r \in Reqs |-> None]
    /\ func_name = [r \in Reqs |-> None]
    /\ tool_result = [r \in Reqs |-> None]
    /\ final = [r \in Reqs |-> None]
    /\ ret = [r \in Reqs |-> None]
    /\ sent = [r \in Reqs |-> <<>>]
    /\ lookups = [r \in Reqs |-> 0]
    /\ entry = [r \in Reqs |-> <<>>]
    /\ returned = [s \in Sessions |-> 0]

InitPure ==
    /\ lk_section = <<>>
    /\ lk_result = None
    /\ ck_text = <<>>
    /\ ck_size = 1
    /\ ck_chunks = None

\* Room for the two turns of one more call within `limit` stored turns.
Room(limit) == TotalTurns + 2 * InFlight + 2 <= limit

AgentNext(r, Firsts, Seconds, limit) ==
    \/ \E sid \in Sessions, q \in Questions, kb \in BOOLEAN :
           Room(limit) /\ Start(r, sid, q, kb)
    \/ \E hits \in HitLists : EmbedReturns(r, hits)
    \/ EmbedFails(r)
    \/ \E c \in Firsts : Chat1Returns(r, c)
    \/ Chat1Fails(r)
    \/ \E content \in Seconds : Chat2Returns(r, content)
    \/ Chat2Fails(r)
    \/ AppendUser(r)
    \/ AppendAssistant(r)
    \/ Finish(r)

\* The HTTP service: two requests, A and B, served concurrently.
Init ==
    /\ LAWS_DB \in AgentDBs
    /\ faiss_index \in BOOLEAN
    /\ InitAgent({"A", "B"})
    /\ InitPure
Next == \E r \in {"A", "B"} : AgentNext(r, SomeFirstResponses, SomeSecondResponses, MaxTurns)
Spec == Init /\ [][Next]_vars

\* One caller at a time (the CLI loop), over many turns.
SeqInit ==
    /\ LAWS_DB = ExampleDB
    /\ faiss_index \in BOOLEAN
    /\ InitAgent({"A"})
    /\ InitPure
SeqNext == AgentNext("A", SomeFirstResponses, SomeSecondResponses, MaxTurnsSeq)
SeqSpec == SeqInit /\ [][SeqNext]_vars

\* One caller at a time, over every response the model can give.
TurnInit ==
    /\ LAWS_DB \in AgentDBs
    /\ faiss_index \in BOOLEAN
    /\ InitAgent({"A"})
    /\ InitPure
TurnNext == AgentNext("A", FirstResponses, SecondResponses, MaxTurnsTool)
TurnSpec == TurnInit /\ [][TurnNext]_vars

\* laws_lookup over every mapping and every section string.
LookupInit ==
    /\ LAWS_DB \in DBsUpTo(MaxKeys)
    /\ faiss_index = FALSE
    /\ InitAgent({})
    /\ InitPure
LookupNext == \E section \in StringsUpTo(MaxLen) : Lookup(section)
LookupSpec == LookupInit /\ [][LookupNext]_vars

\* chunk_text over every text and every size >= 1.
ChunkInit ==
    /\ LAWS_DB = <<>>
    /\ faiss_index = FALSE
    /\ InitAgent({})
    /\ InitPure
ChunkNext == \E text \in StringsUpTo(MaxTextLen), size \in 1..MaxSize : Chunk(text, size)
ChunkSpec == ChunkInit /\ [][ChunkNext]_vars

---------------------------------------------------------------------------
(* Claims about chunk_text, under ChunkSpec                                *)

RECURSIVE Concat(_)
Concat(seqs) == IF seqs = <<>> THEN <<>> ELSE Head(seqs) \o Concat(Tail(seqs))

CeilDiv(n, d) == (n + d - 1) \div d

\* C9: for every text and every size >= 1, the chunks of chunk_text(text,
\* size) concatenate to the text, every chunk is at most size characters
\* long, only the last may be shorter, and there are ceil(len(text) / size)
\* of them (none for the empty text).
C9_ChunksLossless ==
    ck_chunks # None =>
        LET cs == ck_chunks.v
        IN  /\ Concat(cs) = ck_text
            /\ \A i \in 1..Len(cs) : Len(cs[i]) <= ck_size
            /\ \A i \in 1..(Len(cs) - 1) : Len(cs[i]) = ck_size
            /\ Len(cs) = CeilDiv(Len(ck_text), ck_size)
            /\ (ck_text = <<>> => cs = <<>>)

\* A text cut into several chunks, the last one shorter than the size.
C9_Witness ==
    /\ ck_chunks # None
    /\ Len(ck_chunks.v) >= 2
    /\ Len(ck_chunks.v[Len(ck_chunks.v)]) < ck_size

---------------------------------------------------------------------------
(* Claims about laws_lookup, under LookupSpec                              *)

\* The section string matches the key exactly / as a substring,
\* case-insensitively, as the two strings stand.
EqualsKey(section, key) == lower(section) = lower(key)
WithinKey(section, key) == Contains(lower(section), lower(key))

\* C7: if the queried section string equals some mapping key
\* case-insensitively, laws_lookup returns found = true with the text of a
\* key that equals the query case-insensitively, whatever other keys would
\* match it as a substring.
C7_ExactMatchPrecedence ==
    (lk_result # None /\ \E k \in Keys(LAWS_DB) : EqualsKey(lk_section, k)) =>
        /\ lk_result.v.found
        /\ EqualsKey(lk_section, lk_result.v.section)
        /\ \E i \in 1..Len(LAWS_DB) : /\ LAWS_DB[i].key = lk_result.v.section
                                      /\ LAWS_DB[i].text = lk_result.v.text

\* C8 as stated: a section string that matches no key exactly or as a
\* substring (case-insensitively) gets found = false with the query echoed.
C8_NotFoundAsStated ==
    (/\ lk_result # None
     /\ \A k \in Keys(LAWS_DB) : ~EqualsKey(lk_section, k) /\ ~WithinKey(lk_section, k)) =>
        /\ lk_result.v.found = FALSE
        /\ lk_result.v.section = lk_section

\* C8, amended: a section string that, once stripped of leading and trailing
\* whitespace, matches no key exactly or as a substring (case-insensitively)
\* gets found = false, the section field being the query as passed in
\* (unstripped) and the text the fixed not-found message; this covers the
\* empty mapping.
C8_NotFoundStripped ==
    (/\ lk_result # None
     /\ \A k \in Keys(LAWS_DB) :
            ~EqualsKey(strip(lk_section), k) /\ ~WithinKey(strip(lk_section), k)) =>
        /\ lk_result.v.found = FALSE
        /\ lk_result.v.section = lk_section
        /\ lk_result.v.text = NOT_FOUND_TEXT

\* A query with surrounding whitespace that a non-empty mapping does not hold.
C8_Witness ==
    /\ lk_result # None
    /\ LAWS_DB # <<>>
    /\ strip(lk_section) # lk_section
    /\ strip(lk_section) # <<>>
    /\ lk_result.v.found = FALSE

---------------------------------------------------------------------------
(* Claims about one call_agent turn, under TurnSpec                        *)

Requests == DOMAIN pc
Answered(r) == pc[r] \in {"append_user", "append_assistant", "done"}
ToolRequested(r) == choice[r].tool_calls # <<>>
FirstCall(r) == choice[r].tool_calls[1]
\* The text of a response, an absent text read as the empty text.
TextOf(content) == IF content = None THEN Str(<<>>) ELSE content

\* C4: when the first response requests a tool call, no argument string
\* makes the turn fail: the second model call is reached and call_agent
\* does not raise because of the arguments.
C4_ArgumentsNeverFail ==
    \A r \in Requests :
        ToolRequested(r) => (Len(sent[r]) = 2 /\ ret[r] # Raised("AttributeError"))

UnknownTool(r) == ToolRequested(r) /\ FirstCall(r).name # LOOKUP
ErrorResult(name) == Dict([error |-> <<"Unknown tool ">> \o name])
\* The last message of the second chat request carries the error result.
ErrorGivenToModel(r) ==
    /\ Len(sent[r]) = 2
    /\ LET msgs == sent[r][2].messages
           last == msgs[Len(msgs)]
       IN  /\ last.role = "tool"
           /\ last.tool_call_id = FirstCall(r).id
           /\ last.content = json_dumps(ErrorResult(FirstCall(r).name))

\* C5 as stated: for a first tool call naming another tool than laws_lookup,
\* laws_lookup is not invoked, the error result is the tool message of the
\* second model call, and the error result is not returned to the caller.
C5_ErrorNotReturnedToCaller ==
    \A r \in Requests :
        UnknownTool(r) =>
            /\ lookups[r] = 0
            /\ ErrorGivenToModel(r)
            /\ (pc[r] = "done" => ret[r].v.tool_result # ErrorResult(FirstCall(r).name))

\* C5, amended: for a first tool call naming another tool than laws_lookup,
\* laws_lookup is not invoked and the turn does not fail; the error result
\* {"error": "Unknown tool <name>"} is the tool message of the second model
\* call, and the caller gets the second response's text as the answer, the
\* requested name as tool_used and the same error result as tool_result.
C5_ErrorGivenToModelAndCaller ==
    \A r \in Requests :
        UnknownTool(r) =>
            /\ lookups[r] = 0
            /\ ErrorGivenToModel(r)
            /\ ret[r] # Raised("AttributeError")
            /\ (pc[r] = "done" =>
                    /\ ret[r].t = "return"
                    /\ ret[r].v.answer = followup[r]
                    /\ ret[r].v.tool_used = Str(FirstCall(r).name)
                    /\ ret[r].v.tool_result = ErrorResult(FirstCall(r).name))

\* A call that returned after the model asked for an unknown tool.
C5_Witness ==
    \E r \in Requests : UnknownTool(r) /\ pc[r] = "done"

C10_FailedTurnLeavesMemory ==
    \A r \in Requests :
        ret[r] = Raised("provider error") => SESSION_MEMORY = entry[r]

\* The second chat call failed, after the tool ran, in a session with no
\* history while another session has one.
C10_Witness ==
    \E r \in Requests :
        /\ ret[r] = Raised("provider error")
        /\ Len(sent[r]) = 2
        /\ lookups[r] = 1
        /\ session_id[r] \notin DOMAIN SESSION_MEMORY
        /\ SESSION_MEMORY # <<>>

---------------------------------------------------------------------------
(* Claims about session memory over many turns, under SeqSpec              *)

Min(a, b) == IF a < b THEN a ELSE b

\* C2: the prompt of a call is the system instruction, then exactly the
\* last min(n, MEMORY_WINDOW) turns the session had stored when the call
\* read them, in stored order (none for an unknown session), then one
\* system-role block per retrieved chunk, then the question.
C2_PromptWindow ==
    \A r \in Requests :
        sent[r] # <<>> =>
            LET mem == MemGet(entry[r], session_id[r])
                n == Len(mem)
                k == Min(n, MEMORY_WINDOW)
                h == Len(kb_sources[r])
                prompt == sent[r][1].messages
            IN  /\ Len(prompt) = 1 + k + h + 1
                /\ prompt[1] = Turn("system", SYSTEM_PROMPT)
                /\ \A i \in 1..k : prompt[1 + i] = mem[n - k + i]
                /\ \A i \in 1..h : prompt[1 + k + i].role = "system"
                /\ prompt[Len(prompt)] = Turn("user", Str(question[r]))
                /\ k <= 6
                /\ (session_id[r] \notin DOMAIN entry[r] => k = 0)

\* A call whose session holds more turns than the window, with retrieved
\* chunks in the prompt.
C2_Witness ==
    \E r \in Requests :
        /\ pc[r] = "chat1"
        /\ Len(MemGet(SESSION_MEMORY, session_id[r])) > MEMORY_WINDOW
        /\ kb_sources[r] # <<>>

\* C1: with calls made one at a time, a call that returns has appended to
\* its session exactly the turn {user, question} and then the turn
\* {assistant, returned answer}, creating the session entry if it was
\* absent and leaving every turn stored before as it was; after n returned
\* calls a session holds exactly 2n turns, alternating user, assistant.
C1_TwoTurnsPerCall ==
    /\ \A s \in Sessions :
           LET mem == MemGet(SESSION_MEMORY, s)
               mid == \E r \in Requests : pc[r] = "append_assistant" /\ session_id[r] = s
           IN  /\ Len(mem) = 2 * returned[s] + (IF mid THEN 1 ELSE 0)
               /\ \A i \in 1..Len(mem) :
                      mem[i].role = (IF i % 2 = 1 THEN "user" ELSE "assistant")
               /\ (s \in DOMAIN SESSION_MEMORY <=> Len(mem) > 0)
    /\ \A r \in Requests :
           pc[r] = "done" =>
               /\ ret[r].t = "return"
               /\ DOMAIN SESSION_MEMORY = DOMAIN entry[r] \cup {session_id[r]}
               /\ \A s \in DOMAIN entry[r] \ {session_id[r]} : SESSION_MEMORY[s] = entry[r][s]
               /\ SESSION_MEMORY[session_id[r]] =
                      MemGet(entry[r], session_id[r])
                          \o <<[role |-> "user", content |-> Str(question[r])],
                               [role |-> "assistant", content |-> ret[r].v.answer]>>

\* The third call of a session returns through the tool branch while
\* another session has a history of its own.
C1_Witness ==
    \E r \in Requests :
        /\ pc[r] = "done"
        /\ func_name[r] # None
        /\ returned[session_id[r]] = 3
        /\ \E s \in DOMAIN SESSION_MEMORY : s # session_id[r]

---------------------------------------------------------------------------
(* Claims about concurrent requests, under Spec                            *)

\* The history is a sequence of adjacent (user, assistant) pairs.
Paired(mem) ==
    /\ Len(mem) % 2 = 0
    /\ \A i \in 1..Len(mem) : mem[i].role = (IF i % 2 = 1 THEN "user" ELSE "assistant")

PromptTurns(r) ==
    UNION {{sent[r][i].messages[j] : j \in 1..Len(sent[r][i].messages)} : i \in 1..Len(sent[r])}

\* C3: nothing orders the steps of two requests: a request that is about to
\* append its user turn or its assistant turn can do so whatever the other
\* request is doing, also when that request, in the same session, is between
\* its own two appends; and an idle worker can enter a call and read the
\* history while another call of the session is in flight.
C3_Unsynchronised ==
    \A r \in Requests :
        /\ pc[r] = "append_user" => ENABLED AppendUser(r)
        /\ pc[r] = "append_assistant" => ENABLED AppendAssistant(r)
        /\ (pc[r] = "idle" /\ Room(MaxTurns)) =>
               \A s \in Sessions : ENABLED Start(r, s, Q1, FALSE)

\* Requests A and B of one session have returned, the history is user A,
\* user B, assistant A, assistant B, and neither prompt holds a turn of the
\* other request.
C3_Witness ==
    /\ pc["A"] = "done" /\ pc["B"] = "done"
    /\ session_id["A"] = session_id["B"]
    /\ question["A"] # question["B"]
    /\ SESSION_MEMORY[session_id["A"]] =
           <<UserTurn("A"), UserTurn("B"), AssistantTurn("A"), AssistantTurn("B")>>
    /\ ~Paired(SESSION_MEMORY[session_id["A"]])
    /\ {UserTurn("B"), AssistantTurn("B")} \cap PromptTurns("A") = {}
    /\ {UserTurn("A"), AssistantTurn("A")} \cap PromptTurns("B") = {}

====
